---- MODULE Spec2Model ----
(***************************************************************************)
(* TaskManager of filzl_daemons (filzl_daemons/tasks.py): queue_work, the  *)
(* delegate_done_actions drain loop and resolve_future_from_result, run by *)
(* several instance-runner processes against one shared database, with the *)
(* action worker daemons as the environment.                               *)
(***************************************************************************)
EXTENDS Naturals, Sequences, FiniteSets

(* ----------------------------- bounds ---------------------------------- *)
\* queue_work calls started over the whole run
MaxCalls == 2
\* DaemonActionResult rows the workers write over the whole run
MaxResults == 1

(* --------------------------- value domains ----------------------------- *)
\* Python None, for an id column / an object reference
NoId == 0
\* Python None, for a text column
Null == "None"

\* instance-runner processes, each with one TaskManager
Procs == {"p1", "p2"}

\* the queue_work calls the workflow engine makes: a workflow at a given state of a
\* given instance always asks for the same action, so the other arguments follow
\* from (instance_id, state). task is the ActionExecutionStub (registry_id and the
\* dumped input_body), retry the RetryPolicy.
Requests ==
    { [instance_id |-> 1, state |-> "step_a", queue_name |-> "orders",
       task |-> [registry_id |-> "typed_action", input_body |-> "{\"n\":1}"],
       retry |-> [backoff_seconds |-> 5, backoff_factor |-> 2, jitter |-> 0]],
      [instance_id |-> 1, state |-> "step_b", queue_name |-> "orders",
       task |-> [registry_id |-> "untyped_action", input_body |-> Null],
       retry |-> [backoff_seconds |-> 1, backoff_factor |-> 1, jitter |-> 1]] }

\* the (instance_id, state) pairs of those calls
Keys == { <<r.instance_id, r.state>> : r \in Requests }

\* what a worker stores in a DaemonActionResult
ResultPayloads ==
    { [result_body |-> "{\"value\":42}", exception |-> Null, exception_stack |-> Null],
      [result_body |-> Null, exception |-> Null, exception_stack |-> Null],
      [result_body |-> Null, exception |-> "boom", exception_stack |-> "trace..."] }

VARIABLES
    actions,        \* DaemonAction table: sequence of rows, in insertion order
    results,        \* DaemonActionResult table: sequence of rows
    futures,        \* every asyncio.Future queue_work created; the index is the object
    wait_signals,   \* per process: TaskManager.wait_signals, action id -> future
    qw,             \* per process: the caller's queue_work frame
    nCalls,         \* queue_work calls started so far
    returned,       \* per process: what the last finished queue_work call gave its caller
    drain,          \* per process: the delegate_done_actions frame
    warnings,       \* per process: action ids LOGGER.warning was called for
    reads,          \* per process: action ids the drain loop loaded from the database
    dropped,        \* per process: action ids whose DONE notification, the row having
                    \* its final_result_id, the drain loop skipped as not registered
                    \* while the only queue_work call made so far, a call of the
                    \* process for that action, was between its lookup and its
                    \* registration
    overlapped,     \* keys for which two queue_work calls ran at the same time
    finished        \* keys for which a queue_work call has returned or raised

vars == <<actions, results, futures, wait_signals, qw, nCalls, returned, drain,
          warnings, reads, dropped, overlapped, finished>>

(* ----------------------------- helpers --------------------------------- *)
\* Python truthiness of an Optional[str] / Optional[int] column
TruthyStr(s) == s # Null /\ s # ""
TruthyId(i) == i # NoId

Rows(table) == 1..Len(table)

\* REGISTRY.get_action_output: the registered output model, or None
REGISTRY_get_action_output(registry_id) ==
    IF registry_id = "typed_action" THEN "TypedOutput" ELSE Null

\* action_model.model_validate_json: the decoded output model of a dumped body
model_validate_json(body) ==
    IF body = "{\"value\":42}" THEN "TypedOutput(value=42)" ELSE "ValidationError"

\* asyncio.Future(): a new, pending future. The other fields are not fields of the
\* Python object; they record the queue_work call that created and returned it:
\* its process, the id of its DaemonAction, whether it inserted that row, and
\* whether it took the existing-result path.
NewFuture(p, action_id, inserted, fast) ==
    [state |-> "PENDING", result |-> Null, exception |-> <<>>,
     proc |-> p, action_id |-> action_id, inserted |-> inserted, fast |-> fast]

\* an exception leaving the statement; nothing was resolved
Raise(error) ==
    [raised |-> error, future |-> NewFuture("", NoId, FALSE, FALSE)]

\* Future.set_result: InvalidStateError when the future is already done
set_result(future, value) ==
    IF future.state # "PENDING"
    THEN [raised |-> "InvalidStateError", future |-> future]
    ELSE [raised |-> "",
          future |-> [future EXCEPT !.state = "FINISHED", !.result = value]]

\* Future.set_exception(Exception(text)); text is the message, piece by piece
set_exception(future, text) ==
    IF future.state # "PENDING"
    THEN [raised |-> "InvalidStateError", future |-> future]
    ELSE [raised |-> "",
          future |-> [future EXCEPT !.state = "FINISHED", !.exception = text]]

\* resolve_future_from_result building the result and never setting it
ResolveWithoutSetResult(future, registry_id, result) ==
    IF TruthyStr(result.exception)
    THEN set_exception(future, <<result.exception>>)
    ELSE [raised |-> "", future |-> future]

\* resolve_future_from_result resolving with None whenever it cannot decode
ResolveNoneIfUndecodable(future, registry_id, result) ==
    LET action_model == REGISTRY_get_action_output(registry_id)
    IN  IF TruthyStr(result.exception)
        THEN set_exception(future, <<result.exception>>)
        ELSE IF action_model # Null /\ TruthyStr(result.result_body)
             THEN set_result(future, model_validate_json(result.result_body))
             ELSE set_result(future, Null)

\* TaskManager.resolve_future_from_result
resolve_future_from_result(future, registry_id, result) ==
    LET action_model == REGISTRY_get_action_output(registry_id)
    IN  IF TruthyStr(result.exception)
        THEN set_exception(future, <<result.exception>>)
        ELSE IF action_model # Null /\ TruthyStr(result.result_body)
             THEN set_result(future, model_validate_json(result.result_body))
             ELSE IF action_model = Null
                  THEN set_result(future, Null)
                  ELSE [raised |-> "ValueError: Disallowed response type",
                        future |-> future]

\* delegate_done_actions, the branch on result_obj.exception
DrainResolve(future, registry_id, result_obj) ==
    IF TruthyStr(result_obj.exception)
    THEN set_exception(future, <<"Action failed with error:", result_obj.exception,
                                 result_obj.exception_stack>>)
    ELSE resolve_future_from_result(future, registry_id, result_obj)

\* the state_query comparing the column with the CurrentState object instead of
\* its state string: no row is equal to it
MatchingActionsByStateObject(instance_id, state) ==
    { r \in Rows(actions) :
        actions[r].state = "CurrentState(...)" /\ actions[r].instance_id = instance_id }

\* the state_query of get_existing_action_execution: the rows it selects
MatchingActions(instance_id, state) ==
    { r \in Rows(actions) :
        actions[r].state = state /\ actions[r].instance_id = instance_id }

\* the result_query of get_existing_action_execution: the rows it selects
MatchingResults(action_id) ==
    { r \in Rows(results) : action_id # NoId /\ results[r].action_id = action_id }

\* the DaemonAction queue_work builds when it found none
NewAction(id, task, state, instance_id, queue_name, retry) ==
    [id |-> id,
     workflow_name |-> queue_name,
     instance_id |-> instance_id,
     state |-> state,
     registry_id |-> task.registry_id,
     input_body |-> IF TruthyStr(task.input_body) THEN task.input_body ELSE Null,
     retry_backoff_seconds |-> 1,
     retry_backoff_factor |-> 1,
     retry_jitter |-> 1,
     status |-> "queued",
     final_result_id |-> NoId]

\* a queue_work frame that is not running
IdleFrame ==
    [pc |-> "idle",
     task |-> [registry_id |-> Null, input_body |-> Null],
     state |-> Null, instance_id |-> NoId, queue_name |-> Null,
     retry |-> [backoff_seconds |-> 0, backoff_factor |-> 0, jitter |-> 0],
     existing_action |-> NoId, existing_result |-> NoId, inserted |-> FALSE]

\* delegate_done_actions suspended in the async for, waiting for a notification
WaitingDrain ==
    [pc |-> "wait", error |-> ""]

NothingReturned == [kind |-> "nothing", future |-> NoId]

Init ==
    /\ actions = <<>>
    /\ results = <<>>
    /\ futures = <<>>
    /\ wait_signals = [p \in Procs |-> <<>>]
    /\ qw = [p \in Procs |-> IdleFrame]
    /\ nCalls = 0
    /\ returned = [p \in Procs |-> NothingReturned]
    /\ drain = [p \in Procs |-> WaitingDrain]
    /\ warnings = [p \in Procs |-> {}]
    /\ reads = [p \in Procs |-> {}]
    /\ dropped = [p \in Procs |-> {}]
    /\ overlapped = {}
    /\ finished = {}

(* ---------------------------- queue_work ------------------------------- *)
\* The call and get_existing_action_execution. Its two queries are one step: rows
\* are never deleted and ids never change, so the pair of reads returns what one
\* read at the time of the result_query returns. Neither query is ordered, so
\* first() may give any of the selected rows.
QueueWorkCall(p, task, state, instance_id, queue_name, retry) ==
    /\ qw[p].pc = "idle"
    /\ nCalls < MaxCalls
    /\ nCalls' = nCalls + 1
    /\ LET found == MatchingActions(instance_id, state)
           frame == [IdleFrame EXCEPT !.task = task, !.state = state,
                        !.instance_id = instance_id, !.queue_name = queue_name,
                        !.retry = retry]
       IN  IF found = {}
           THEN qw' = [qw EXCEPT ![p] = [frame EXCEPT !.pc = "insert"]]
           ELSE \E a \in found :
                  LET with_result == MatchingResults(actions[a].id)
                  IN  IF with_result = {}
                      THEN qw' = [qw EXCEPT ![p] =
                                    [frame EXCEPT !.pc = "finish",
                                                  !.existing_action = a]]
                      ELSE \E r \in with_result :
                             qw' = [qw EXCEPT ![p] =
                                      [frame EXCEPT !.pc = "finish",
                                                    !.existing_action = a,
                                                    !.existing_result = r]]
    /\ overlapped' =
         IF \E q \in Procs \ {p} : /\ qw[q].pc # "idle"
                                   /\ qw[q].state = state
                                   /\ qw[q].instance_id = instance_id
         THEN overlapped \cup {<<instance_id, state>>}
         ELSE overlapped
    /\ UNCHANGED <<actions, results, futures, wait_signals, returned, drain,
                   warnings, reads, dropped, finished>>

\* an insert that looks again and adds no row when the pair has one by now
QueueWorkInsertIfAbsent(p, id_assigned) ==
    /\ qw[p].pc = "insert"
    /\ LET found == MatchingActions(qw[p].instance_id, qw[p].state)
           row == Len(actions) + 1
           id == IF id_assigned THEN row ELSE NoId
       IN  IF found = {}
           THEN /\ actions' = Append(actions,
                                 NewAction(id, qw[p].task, qw[p].state,
                                           qw[p].instance_id, qw[p].queue_name,
                                           qw[p].retry))
                /\ qw' = [qw EXCEPT ![p].pc = "finish", ![p].existing_action = row,
                                    ![p].inserted = TRUE]
           ELSE /\ actions' = actions
                /\ qw' = [qw EXCEPT ![p].pc = "finish",
                                    ![p].existing_action = CHOOSE a \in found : TRUE]
    /\ UNCHANGED <<results, futures, wait_signals, nCalls, returned, drain,
                   warnings, reads, dropped, overlapped, finished>>

\* session.add(existing_action); await session.commit()
QueueWorkInsert(p, id_assigned) ==
    /\ qw[p].pc = "insert"
    /\ LET row == Len(actions) + 1
           id == IF id_assigned THEN row ELSE NoId
       IN  /\ actions' = Append(actions,
                            NewAction(id, qw[p].task, qw[p].state, qw[p].instance_id,
                                      qw[p].queue_name, qw[p].retry))
           /\ qw' = [qw EXCEPT ![p].pc = "finish", ![p].existing_action = row,
                               ![p].inserted = TRUE]
    /\ UNCHANGED <<results, futures, wait_signals, nCalls, returned, drain,
                   warnings, reads, dropped, overlapped, finished>>

\* the future created and returned without being stored in the dict
RegisterNothing(signals, id, future) == signals

\* wait_signals[id] = future
Register(signals, id, future) ==
    [i \in DOMAIN signals \cup {id} |-> IF i = id THEN future ELSE signals[i]]

\* queue_work going on with a row that has no id
IdNeverNone(id) == FALSE

\* if existing_action.id is None
IdIsNone(id) == id = NoId

\* queue_work without its existing-result path
NeverExistingResult(existing_result) == FALSE

\* if existing_result is not None
HasExistingResult(existing_result) == existing_result # NoId

\* queue_work after the session block: the id check, the fast path, the registration
QueueWorkFinish(p) ==
    /\ qw[p].pc = "finish"
    /\ qw' = [qw EXCEPT ![p] = IdleFrame]
    /\ finished' = finished \cup {<<qw[p].instance_id, qw[p].state>>}
    /\ LET id == actions[qw[p].existing_action].id
           new == Len(futures) + 1
       IN  IF IdIsNone(id)
           THEN /\ returned' = [returned EXCEPT ![p] =
                                  [kind |-> "ValueError: Action task ID is None",
                                      future |-> NoId]]
                /\ UNCHANGED <<futures, wait_signals>>
           ELSE IF HasExistingResult(qw[p].existing_result)
           THEN LET done == resolve_future_from_result(
                                NewFuture(p, id, qw[p].inserted, TRUE),
                                qw[p].task.registry_id,
                                results[qw[p].existing_result])
                IN  IF done.raised # ""
                    THEN /\ returned' = [returned EXCEPT ![p] =
                                           [kind |-> done.raised, future |-> NoId]]
                         /\ UNCHANGED <<futures, wait_signals>>
                    ELSE /\ futures' = Append(futures, done.future)
                         /\ returned' = [returned EXCEPT ![p] =
                                           [kind |-> "future", future |-> new]]
                         /\ UNCHANGED wait_signals
           ELSE /\ futures' = Append(futures, NewFuture(p, id, qw[p].inserted, FALSE))
                /\ wait_signals' = [wait_signals EXCEPT ![p] = Register(@, id, new)]
                /\ returned' = [returned EXCEPT ![p] =
                                  [kind |-> "future", future |-> new]]
    /\ UNCHANGED <<actions, results, nCalls, drain, warnings, reads, dropped,
                   overlapped>>

(* ----------------------- delegate_done_actions ------------------------- *)
\* iter_ready_objects(DaemonAction, status=DONE): the ids of the actions whose
\* status is DONE. Delivery is at least once: the stream may give an id again.
ReadyObjects ==
    { actions[a].id : a \in { r \in Rows(actions) : actions[r].status = "done" } }

\* the lookup ignoring the id of the notification: whichever future is registered
WaitSignalsGetAnyId(p, n) ==
    IF wait_signals[p] = <<>>
    THEN NoId
    ELSE wait_signals[p][CHOOSE i \in DOMAIN wait_signals[p] : TRUE]

\* self.wait_signals.get(notification.id)
WaitSignalsGet(p, n) ==
    IF n \in DOMAIN wait_signals[p] THEN wait_signals[p][n] ELSE NoId

\* the loop without its filter on waiting_futures
NeverSkipped(waiting_futures) == FALSE

\* if waiting_futures is None: continue
NoWaitingFuture(waiting_futures) == waiting_futures = NoId

\* the loop without its check of final_result_id
AlwaysFinal(obj) == FALSE

\* if not obj.final_result_id: warn and continue
NoFinalResult(obj) == ~TruthyId(obj.final_result_id)

\* the loop putting an action marked DONE without a final result back to queued,
\* instead of only skipping it
DrainRequeuesSpuriousDone(p, n) ==
    /\ drain[p].pc = "wait"
    /\ n \in ReadyObjects
    /\ ~NoWaitingFuture(WaitSignalsGet(p, n))
    /\ NoFinalResult(actions[n])
    /\ reads' = [reads EXCEPT ![p] = @ \cup {n}]
    /\ warnings' = [warnings EXCEPT ![p] = @ \cup {n}]
    /\ actions' = [actions EXCEPT ![n].status = "queued"]
    /\ UNCHANGED <<results, futures, wait_signals, qw, nCalls, returned, drain,
                   dropped, overlapped, finished>>

\* One iteration of the async for, for notification n. The two get_object_by_id
\* reads and the resolution are one step with the wait_signals.get before them:
\* the final_result_id of a row is set once and result rows never change, so the
\* reads return the same later, and a queue_work that registers another future
\* in between finds the loop holding the earlier one either way. An exception
\* raised in the body leaves the async for, and the coroutine ends.
DrainReceive(p, n) ==
    /\ drain[p].pc = "wait"
    /\ n \in ReadyObjects
    /\ dropped' = [dropped EXCEPT ![p] =
                     IF /\ n \notin DOMAIN wait_signals[p]
                        /\ TruthyId(actions[n].final_result_id)
                        /\ nCalls = 1
                        /\ qw[p].pc = "finish"
                        /\ actions[qw[p].existing_action].id = n
                     THEN @ \cup {n} ELSE @]
    /\ LET waiting_futures == WaitSignalsGet(p, n)
           obj == actions[n]
       IN  IF NoWaitingFuture(waiting_futures)
           THEN UNCHANGED <<drain, reads, warnings, futures>>
           ELSE /\ reads' = [reads EXCEPT ![p] = @ \cup {n}]
                /\ IF NoFinalResult(obj)
                   THEN /\ warnings' = [warnings EXCEPT ![p] = @ \cup {obj.id}]
                        /\ UNCHANGED <<drain, futures>>
                   ELSE LET result_obj == results[obj.final_result_id]
                            done == IF waiting_futures = NoId
                                    THEN Raise("AttributeError")
                                    ELSE IF obj.final_result_id = NoId
                                    THEN Raise("NoResultFound")
                                    ELSE DrainResolve(futures[waiting_futures],
                                                      obj.registry_id, result_obj)
                        IN  /\ UNCHANGED warnings
                            /\ IF done.raised # ""
                               THEN /\ drain' = [drain EXCEPT ![p] =
                                                   [pc |-> "crashed",
                                                    error |-> done.raised]]
                                    /\ UNCHANGED futures
                               ELSE /\ UNCHANGED drain
                                    /\ futures' = [futures EXCEPT
                                                     ![waiting_futures] = done.future]
    /\ UNCHANGED <<actions, results, wait_signals, qw, nCalls, returned, overlapped,
                   finished>>

(* ------------------- action workers and the database ------------------- *)
\* a worker stores the outcome of one run of an action; the outcome of the last
\* run becomes final_result_id, the failure of a run that is retried does not
WorkerWriteResult(a, payload, final) ==
    /\ Len(results) < MaxResults
    /\ actions[a].id # NoId
    /\ actions[a].final_result_id = NoId
    /\ final \/ TruthyStr(payload.exception)
    /\ LET rid == Len(results) + 1
       IN  /\ results' = Append(results,
                            [id |-> rid, action_id |-> actions[a].id,
                             result_body |-> payload.result_body,
                             exception |-> payload.exception,
                             exception_stack |-> payload.exception_stack])
           /\ actions' = IF final
                         THEN [actions EXCEPT ![a].final_result_id = rid]
                         ELSE actions
    /\ UNCHANGED <<futures, wait_signals, qw, nCalls, returned, drain, warnings,
                   reads, dropped, overlapped, finished>>

\* a worker sets the action's status to DONE
WorkerMarkDone(a) ==
    /\ actions[a].id # NoId
    /\ actions[a].status = "queued"
    /\ actions' = [actions EXCEPT ![a].status = "done"]
    /\ UNCHANGED <<results, futures, wait_signals, qw, nCalls, returned, drain,
                   warnings, reads, dropped, overlapped, finished>>

(* --------------------------- specification ----------------------------- *)
Next ==
    \/ \E p \in Procs, r \in Requests :
         QueueWorkCall(p, r.task, r.state, r.instance_id, r.queue_name, r.retry)
    \/ \E p \in Procs, id_assigned \in BOOLEAN : QueueWorkInsert(p, id_assigned)
    \/ \E p \in Procs : QueueWorkFinish(p)
    \/ \E p \in Procs, n \in 1..Len(actions) : DrainReceive(p, n)
    \/ \E a \in Rows(actions), payload \in ResultPayloads, final \in BOOLEAN :
         WorkerWriteResult(a, payload, final)
    \/ \E a \in Rows(actions) : WorkerMarkDone(a)

Spec == Init /\ [][Next]_vars

(* ------------------------------ claims --------------------------------- *)
\* the rows of the DaemonAction table for an (instance_id, state) pair
RecordsFor(key) ==
    { r \in Rows(actions) : actions[r].instance_id = key[1] /\ actions[r].state = key[2] }

\* the pieces of an exception's message
Contains(text, piece) == \E i \in DOMAIN text : text[i] = piece

\* the future registered in wait_signals of p under action id n
Registered(p, n) == wait_signals[p][n]

\* the DaemonActionResult the action with id n points at with final_result_id
FinalResult(n) == results[actions[n].final_result_id]

\* C1: as long as no two queue_work calls for an (instance_id, state) pair have run
\* at the same time, in one process or in several, the table holds at most one
\* DaemonAction for the pair, and exactly one once a call for it has finished.
C1_OneRecordPerPair ==
    \A key \in Keys :
        key \notin overlapped =>
            /\ Cardinality(RecordsFor(key)) <= 1
            /\ key \in finished => Cardinality(RecordsFor(key)) = 1

\* two calls for one pair, made one after the other by different processes, have
\* both returned a future for the same single row
C1_Witness ==
    \E f \in DOMAIN futures, g \in DOMAIN futures :
        /\ futures[f].proc # futures[g].proc
        /\ futures[f].action_id = futures[g].action_id
        /\ futures[f].inserted /\ ~futures[g].inserted
        /\ \A key \in Keys : key \notin overlapped
        /\ Cardinality(RecordsFor(<<actions[futures[f].action_id].instance_id,
                                    actions[futures[f].action_id].state>>)) = 1

\* C2: a queue_work call that found no result and finishes while the future its
\* TaskManager registered for the same action is still pending returns that same
\* future, and inserts no row.
C2_SecondCallSameHandle ==
    [][\A p \in Procs :
         LET id == actions[qw[p].existing_action].id
         IN  ( /\ QueueWorkFinish(p)
               /\ qw[p].existing_result = NoId
               /\ id \in DOMAIN wait_signals[p]
               /\ futures[Registered(p, id)].state = "PENDING" )
             => /\ returned'[p].kind = "future"
                /\ returned'[p].future = Registered(p, id)
                /\ actions' = actions]_vars

\* C3: when the lookup of queue_work found a DaemonActionResult, the future the
\* call returns is already done when it is returned, with the stored exception or
\* with the decoded body (None without a registered output model).
C3_FastPathResolved ==
    [][\A p \in Procs :
         ( /\ QueueWorkFinish(p)
           /\ qw[p].existing_result # NoId
           /\ returned'[p].kind = "future" )
         => LET h == futures'[returned'[p].future]
                r == results[qw[p].existing_result]
            IN  /\ Len(futures') = Len(futures) + 1
                /\ returned'[p].future = Len(futures')
                /\ h.state = "FINISHED"
                /\ IF r.exception # Null
                   THEN Contains(h.exception, r.exception)
                   ELSE /\ h.exception = <<>>
                        /\ h.result =
                             IF qw[p].task.registry_id = "typed_action"
                             THEN model_validate_json(r.result_body)
                             ELSE Null]_vars

\* a call has returned a future of the existing-result path, and it is done
C3_Witness ==
    \E p \in Procs :
        /\ returned[p].kind = "future"
        /\ futures[returned[p].future].fast
        /\ futures[returned[p].future].state = "FINISHED"

\* C4: a pending future queue_work returned for a row it inserted is resolved with
\* the decoded value once the drain loop of its process handles a DONE notification
\* of that row whose final result is a success with a body of a typed action.
C4_EndToEnd ==
    [][\A p \in Procs, n \in DOMAIN actions, h \in DOMAIN futures :
         ( /\ n \in DOMAIN wait_signals[p]
           /\ futures[h].proc = p /\ futures[h].action_id = n
           /\ futures[h].inserted /\ ~futures[h].fast
           /\ futures[h].state = "PENDING"
           /\ actions[n].final_result_id # NoId
           /\ actions[n].registry_id = "typed_action"
           /\ FinalResult(n).exception = Null
           /\ FinalResult(n).result_body # Null
           /\ qw' = qw
           /\ DrainReceive(p, n) )
         => /\ futures'[h].state = "FINISHED"
            /\ futures'[h].result = model_validate_json(FinalResult(n).result_body)]_vars

\* C5: handling a DONE notification for a registered id whose final result has an
\* exception leaves the registered future failed with a message that has the
\* stored exception and the stored exception_stack, and the loop does not raise.
C5_DrainFailure ==
    [][\A p \in Procs, n \in DOMAIN actions :
         ( /\ n \in DOMAIN wait_signals[p]
           /\ actions[n].final_result_id # NoId
           /\ FinalResult(n).exception # Null
           /\ qw' = qw
           /\ DrainReceive(p, n) )
         => LET h == futures'[Registered(p, n)]
            IN  /\ h.state = "FINISHED"
                /\ Contains(h.exception, FinalResult(n).exception)
                /\ Contains(h.exception, FinalResult(n).exception_stack)
                /\ drain'[p].pc # "crashed"]_vars

\* C6: the future queue_work returns for an existing result with an exception is
\* failed with a message that has the stored exception and the stored
\* exception_stack, as the drain loop's message has.
C6_FastPathFailure ==
    [][\A p \in Procs :
         ( /\ QueueWorkFinish(p)
           /\ qw[p].existing_result # NoId
           /\ results[qw[p].existing_result].exception # Null
           /\ returned'[p].kind = "future" )
         => LET h == futures'[returned'[p].future]
                r == results[qw[p].existing_result]
            IN  /\ h.state = "FINISHED"
                /\ Contains(h.exception, r.exception)
                /\ Contains(h.exception, r.exception_stack)]_vars

\* a DaemonActionResult without an exception
Success(r) == r.exception = Null

\* C7: for a result without an exception, resolve_future_from_result decodes the
\* body when an output model is registered and a body is stored, resolves with
\* None when no output model is registered, body or not, and raises without
\* resolving when an output model is registered and no body is stored; in
\* queue_work and in the drain loop alike.
C7_ThreeWayRule ==
    [][/\ \A p \in Procs :
            ( /\ QueueWorkFinish(p)
              /\ qw[p].existing_result # NoId
              /\ Success(results[qw[p].existing_result]) )
            => LET r == results[qw[p].existing_result]
                   typed == qw[p].task.registry_id = "typed_action"
                   h == futures'[returned'[p].future]
               IN  /\ (typed /\ r.result_body # Null) =>
                         /\ returned'[p].kind = "future"
                         /\ h.state = "FINISHED" /\ h.exception = <<>>
                         /\ h.result = "TypedOutput(value=42)"
                   /\ ~typed =>
                         /\ returned'[p].kind = "future"
                         /\ h.state = "FINISHED" /\ h.exception = <<>>
                         /\ h.result = Null
                   /\ (typed /\ r.result_body = Null) =>
                         /\ returned'[p].kind = "ValueError: Disallowed response type"
                         /\ futures' = futures
       /\ \A p \in Procs, n \in DOMAIN actions :
            ( /\ n \in DOMAIN wait_signals[p]
              /\ actions[n].final_result_id # NoId
              /\ Success(FinalResult(n))
              /\ qw' = qw
              /\ DrainReceive(p, n) )
            => LET r == FinalResult(n)
                   typed == actions[n].registry_id = "typed_action"
                   h == futures'[Registered(p, n)]
               IN  /\ (typed /\ r.result_body # Null) =>
                         /\ h.state = "FINISHED" /\ h.exception = <<>>
                         /\ h.result = "TypedOutput(value=42)"
                   /\ ~typed =>
                         /\ h.state = "FINISHED" /\ h.exception = <<>>
                         /\ h.result = Null
                   /\ (typed /\ r.result_body = Null) =>
                         /\ drain'[p].pc = "crashed"
                         /\ drain'[p].error = "ValueError: Disallowed response type"
                         /\ h.state = "PENDING"
                         /\ futures' = futures]_vars

\* the drain loop has raised on a success without a body of a typed action, and the
\* registered future is still pending
C7_Witness ==
    \E p \in Procs, n \in DOMAIN actions :
        /\ drain[p].error = "ValueError: Disallowed response type"
        /\ n \in DOMAIN wait_signals[p]
        /\ actions[n].final_result_id # NoId
        /\ Success(FinalResult(n)) /\ FinalResult(n).result_body = Null
        /\ futures[Registered(p, n)].state = "PENDING"

\* C8: a DONE notification for an id with no future registered in the process
\* makes its drain loop read nothing from the database, resolve no future and
\* leave wait_signals as it is.
C8_UnregisteredIgnored ==
    [][\A p \in Procs, n \in DOMAIN actions :
         ( /\ n \notin DOMAIN wait_signals[p]
           /\ qw' = qw
           /\ DrainReceive(p, n) )
         => UNCHANGED <<reads, futures, wait_signals, warnings, drain>>]_vars

\* The drain loop of p is waiting and a DONE action with a final result that
\* another process awaits, and p does not, is there to be notified about. The
\* iteration changes nothing, so this is the state after it as well as before.
C8_Witness ==
    \E p \in Procs, q \in Procs, n \in ReadyObjects :
        /\ p # q
        /\ drain[p].pc = "wait"
        /\ n \notin DOMAIN wait_signals[p]
        /\ n \in DOMAIN wait_signals[q]
        /\ actions[n].final_result_id # NoId
        /\ futures[Registered(q, n)].state = "FINISHED"
        /\ reads[p] = {}

C10_DuplicateDoneNoOp ==
    [][\A p \in Procs, n \in DOMAIN actions :
         ( /\ n \in DOMAIN wait_signals[p]
           /\ futures[Registered(p, n)].state = "FINISHED"
           /\ qw' = qw
           /\ DrainReceive(p, n) )
         => /\ drain'[p].pc = "wait"
            /\ drain'[p].error = ""
            /\ futures' = futures]_vars

\* the final result of the action with id n is one resolve_future_from_result
\* rejects: no exception, no body, and an output model registered for the action
Undecodable(n) ==
    /\ Success(FinalResult(n))
    /\ FinalResult(n).result_body = Null
    /\ actions[n].registry_id = "typed_action"

\* C11: when the drain loop handles the DONE notification of a registered action
\* whose final result has no body although an output model is registered, the
\* failure stays with that notification: the loop is still running afterwards,
\* ready for the notifications of other actions.
C11_DecodeFatalIsolated ==
    [][\A p \in Procs, n \in DOMAIN actions :
         ( /\ n \in DOMAIN wait_signals[p]
           /\ actions[n].final_result_id # NoId
           /\ Undecodable(n)
           /\ qw' = qw
           /\ DrainReceive(p, n) )
         => drain'[p].pc = "wait"]_vars

\* C12: a future becomes done only in a step before which a DaemonActionResult of
\* its action was in the table and had been read by the process: the row the
\* lookup of queue_work returned, or the row the drain loop loaded through the
\* final_result_id of the action it loaded.
C12_ResolvedAfterResult ==
    [][\A h \in DOMAIN futures' :
         ( /\ futures'[h].state = "FINISHED"
           /\ h \in DOMAIN futures => futures[h].state = "PENDING" )
         => LET p == futures'[h].proc
                n == futures'[h].action_id
            IN  IF futures'[h].fast
                THEN /\ qw[p].existing_result \in Rows(results)
                     /\ results[qw[p].existing_result].action_id = n
                ELSE /\ n \in reads'[p]
                     /\ actions[n].final_result_id \in Rows(results)
                     /\ FinalResult(n).action_id = n]_vars

\* one process holds a future done by the existing-result path and another a
\* future done by its drain loop
C12_Witness ==
    \E f \in DOMAIN futures, g \in DOMAIN futures :
        /\ futures[f].fast /\ futures[f].state = "FINISHED"
        /\ ~futures[g].fast /\ futures[g].state = "FINISHED"
        /\ futures[g].action_id \in reads[futures[g].proc]

\* C13: when the DaemonAction of a queue_work call has no id after the session
\* block, the call raises, returns no future, creates none and leaves wait_signals
\* as it is.
C13_NoIdRaises ==
    [][\A p \in Procs :
         ( /\ QueueWorkFinish(p)
           /\ actions[qw[p].existing_action].id = NoId )
         => /\ returned'[p] = [kind |-> "ValueError: Action task ID is None",
                               future |-> NoId]
            /\ wait_signals' = wait_signals
            /\ futures' = futures]_vars

\* a call whose insert gave no id has raised, and nothing is registered
C13_Witness ==
    \E p \in Procs :
        /\ returned[p].kind = "ValueError: Action task ID is None"
        /\ \E r \in Rows(actions) : actions[r].id = NoId
        /\ wait_signals[p] = <<>>
        /\ qw[p].pc = "idle"

\* the (instance_id, state) pair of the queue_work call p is running
CallKey(p) == <<qw[p].instance_id, qw[p].state>>

\* C14: the DaemonAction queue_work inserts has the registry_id of the task, its
\* dumped input_body (None when the task has none), the queue name given, and the
\* retry_backoff_seconds, retry_backoff_factor and retry_jitter of the RetryPolicy
\* given.
C14_InsertedFields ==
    [][\A p \in Procs, id_assigned \in BOOLEAN :
         QueueWorkInsert(p, id_assigned)
         => LET row == actions'[Len(actions')]
            IN  /\ row.registry_id = qw[p].task.registry_id
                /\ row.input_body = qw[p].task.input_body
                /\ row.workflow_name = qw[p].queue_name
                /\ row.retry_backoff_seconds = qw[p].retry.backoff_seconds
                /\ row.retry_backoff_factor = qw[p].retry.backoff_factor
                /\ row.retry_jitter = qw[p].retry.jitter]_vars

\* C15: the insert of queue_work does not look again: it adds a row for the pair
\* of its call whatever the table holds by then, so two calls that both found no
\* row both insert; and a pair gets a second row in no other way than by calls
\* that ran at the same time.
C15_RaceInsertsTwice ==
    /\ [][\A p \in Procs, id_assigned \in BOOLEAN :
            QueueWorkInsert(p, id_assigned)
            => /\ Len(actions') = Len(actions) + 1
               /\ Cardinality(RecordsFor(CallKey(p)))' =
                     Cardinality(RecordsFor(CallKey(p))) + 1]_vars
    /\ [](\A key \in Keys : Cardinality(RecordsFor(key)) >= 2 => key \in overlapped)

\* two processes have each inserted a row for the same pair, and both rows have ids
C15_Witness ==
    \E a \in Rows(actions), b \in Rows(actions) :
        /\ a # b
        /\ actions[a].instance_id = actions[b].instance_id
        /\ actions[a].state = actions[b].state
        /\ actions[a].id # NoId /\ actions[b].id # NoId
        /\ \E f \in DOMAIN futures, g \in DOMAIN futures :
              /\ futures[f].proc # futures[g].proc
              /\ futures[f].inserted /\ futures[g].inserted
              /\ futures[f].action_id = a /\ futures[g].action_id = b

\* C16: with one queue_work call made, once the call has returned a future and the
\* drain loop of its process has received the DONE notification of the action,
\* its final result stored and one the loop can resolve from, the future is done;
\* whether the notification came after the registration or between the lookup and
\* the registration.
C16_NoLostWakeup ==
    \A p \in Procs :
        ( /\ nCalls = 1
          /\ returned[p].kind = "future" )
        => LET h == returned[p].future
               n == futures[h].action_id
           IN  ( /\ actions[n].final_result_id # NoId
                 /\ ~Undecodable(n)
                 /\ n \in dropped[p] \cup (reads[p] \ warnings[p]) )
               => futures[h].state = "FINISHED"

\* C17: a pending future queue_work returned from its registration is the future
\* wait_signals of its process holds under the id of its action, so that the DONE
\* notification of the action resolves it.
C17_PendingStaysRegistered ==
    \A h \in DOMAIN futures :
        ( /\ futures[h].state = "PENDING"
          /\ ~futures[h].fast )
        => /\ futures[h].action_id \in DOMAIN wait_signals[futures[h].proc]
           /\ Registered(futures[h].proc, futures[h].action_id) = h

\* C18: the DaemonActionResult the existing-result path of queue_work resolves its
\* future from is the one the final_result_id of the action points at, the one
\* the drain loop would resolve from.
C18_FastPathFinalResult ==
    [][\A p \in Procs :
         ( /\ QueueWorkFinish(p)
           /\ qw[p].existing_result # NoId
           /\ returned'[p].kind = "future" )
         => actions[qw[p].existing_action].final_result_id = qw[p].existing_result]_vars

\* a step of the TaskManager of p: of its queue_work call or of its drain loop
TaskManagerStep(p) ==
    \/ \E r \in Requests :
         QueueWorkCall(p, r.task, r.state, r.instance_id, r.queue_name, r.retry)
    \/ \E id_assigned \in BOOLEAN : QueueWorkInsert(p, id_assigned)
    \/ QueueWorkFinish(p)
    \/ \E n \in Rows(actions) : DrainReceive(p, n)

\* C19: no step of queue_work or of the drain loop changes a row of the
\* DaemonAction table or anything in the DaemonActionResult table; the one write
\* is the insert of queue_work, one row, once in a call.
C19_ObservesNeverDrives ==
    [][\A p \in Procs :
         \/ /\ results' = results
            /\ \A r \in Rows(actions) : actions'[r] = actions[r]
            /\ \/ actions' = actions
               \/ /\ Len(actions') = Len(actions) + 1
                  /\ qw[p].pc = "insert" /\ ~qw[p].inserted
                  /\ qw'[p].pc = "finish" /\ qw'[p].inserted
         \/ ~TaskManagerStep(p)]_vars

\* a call inserted a row and got a future, the worker stored the final result and
\* marked the action DONE, the drain loop resolved the future, and the row is as
\* the worker left it
C19_Witness ==
    \E h \in DOMAIN futures :
        /\ futures[h].inserted /\ ~futures[h].fast
        /\ futures[h].state = "FINISHED"
        /\ actions[futures[h].action_id].status = "done"
        /\ actions[futures[h].action_id].final_result_id = Len(results)
        /\ Len(results) = 1

\* C20: a queue_work call whose lookup found a result leaves wait_signals as it
\* is: the future it returns is not registered, and what was registered under the
\* id stays.
C20_FastPathMapUnchanged ==
    [][\A p \in Procs :
         ( /\ QueueWorkFinish(p)
           /\ qw[p].existing_result # NoId )
         => /\ wait_signals' = wait_signals
            /\ returned'[p].kind = "future" =>
                  \A q \in Procs :
                      \A n \in DOMAIN wait_signals'[q] :
                          wait_signals'[q][n] # returned'[p].future]_vars

\* a process got a done future from the existing-result path while the pending
\* future of its earlier call is still the one registered under the id
C20_Witness ==
    \E p \in Procs :
        /\ returned[p].kind = "future"
        /\ futures[returned[p].future].fast
        /\ LET n == futures[returned[p].future].action_id
           IN  /\ n \in DOMAIN wait_signals[p]
               /\ Registered(p, n) # returned[p].future
               /\ futures[Registered(p, n)].state = "PENDING"

\* C21: a queue_work call whose lookup found no result and that returns a future
\* returns a pending one, and it is the future wait_signals of its process holds
\* under the id of the DaemonAction the call found or inserted for its
\* (instance_id, state) pair.
C21_SlowPathRegistered ==
    [][\A p \in Procs :
         ( /\ QueueWorkFinish(p)
           /\ qw[p].existing_result = NoId
           /\ returned'[p].kind = "future" )
         => LET h == returned'[p].future
                row == actions[qw[p].existing_action]
            IN  /\ h \in DOMAIN futures'
                /\ futures'[h].state = "PENDING"
                /\ row.instance_id = qw[p].instance_id
                /\ row.state = qw[p].state
                /\ row.id \in DOMAIN wait_signals'[p]
                /\ wait_signals'[p][row.id] = h]_vars

\* one process got the pending registered future of a row it inserted, another
\* the pending registered future of that row, which it found
C21_Witness ==
    \E p \in Procs, q \in Procs :
        /\ p # q
        /\ returned[p].kind = "future" /\ returned[q].kind = "future"
        /\ LET f == returned[p].future
               g == returned[q].future
           IN  /\ ~futures[f].fast /\ ~futures[g].fast
               /\ futures[f].inserted /\ ~futures[g].inserted
               /\ futures[f].action_id = futures[g].action_id
               /\ futures[f].state = "PENDING" /\ futures[g].state = "PENDING"
               /\ Registered(p, futures[f].action_id) = f
               /\ Registered(q, futures[g].action_id) = g

====
